---- MODULE Spec2Model ----
(***************************************************************************)
(* PitStop API (src/backend/main.py): vehicles and their maintenance,      *)
(* insurance and registration records kept as Redis hashes.                *)
(*                                                                         *)
(* Strings are sequences of one-character strings, so that str(), int(),   *)
(* float(), endswith() and string comparison are computed, not assumed.    *)
(* A Python value is a record [k, s, n]: k is its type, s its characters   *)
(* (str) and n its number (int; float in tenths).                          *)
(***************************************************************************)
EXTENDS Integers, Sequences, FiniteSets, TLC

VARIABLES store, nextId, req, resp, issued

vars == <<store, nextId, req, resp, issued>>

(* Bounds of the model. *)
MaxIds == 3
MaxTime == 1

----------------------------------------------------------------------------
(* Strings and numbers. *)

DigitChars == <<"0", "1", "2", "3", "4", "5", "6", "7", "8", "9">>

IsDigit(c) == \E i \in 1..10 : DigitChars[i] = c

DigitVal(c) == (CHOOSE i \in 1..10 : DigitChars[i] = c) - 1

RECURSIVE NatToStr(_)
NatToStr(n) ==
    IF n < 10 THEN <<DigitChars[n + 1]>>
    ELSE NatToStr(n \div 10) \o <<DigitChars[(n % 10) + 1]>>

(* str(n) of an int. *)
IntToStr(n) == IF n < 0 THEN <<"-">> \o NatToStr(-n) ELSE NatToStr(n)

(* str(x) of a float x = n / 10: "5.0", "-0.5", "12.3". *)
FloatToStr(n) ==
    LET a == IF n < 0 THEN -n ELSE n
    IN  (IF n < 0 THEN <<"-">> ELSE <<>>)
        \o NatToStr(a \div 10) \o <<".">> \o <<DigitChars[(a % 10) + 1]>>

AllDigits(s) == Len(s) > 0 /\ \A i \in 1..Len(s) : IsDigit(s[i])

RECURSIVE DigitsVal(_)
DigitsVal(s) ==
    IF Len(s) = 0 THEN 0
    ELSE 10 * DigitsVal(SubSeq(s, 1, Len(s) - 1)) + DigitVal(s[Len(s)])

HasSign(s) == Len(s) > 0 /\ s[1] \in {"-", "+"}

Unsigned(s) == IF HasSign(s) THEN Tail(s) ELSE s

Signed(s, n) == IF HasSign(s) /\ s[1] = "-" THEN -n ELSE n

(* int(s) of a str: an optional sign and decimal digits, else ValueError. *)
ParseInt(s) ==
    IF AllDigits(Unsigned(s))
    THEN [ok |-> TRUE, n |-> Signed(s, DigitsVal(Unsigned(s)))]
    ELSE [ok |-> FALSE, n |-> 0]

DotAt(s) == {i \in 1..Len(s) : s[i] = "."}

(* float(s) of a str, in tenths: an optional sign, digits and at most one  *)
(* fractional digit; any other string of the model's alphabet is a         *)
(* ValueError.                                                             *)
ParseFloat(s) ==
    LET u == Unsigned(s)
    IN  IF AllDigits(u)
        THEN [ok |-> TRUE, n |-> Signed(s, 10 * DigitsVal(u))]
        ELSE IF /\ DotAt(u) = {Len(u) - 1}
                /\ AllDigits(SubSeq(u, 1, Len(u) - 2))
                /\ IsDigit(u[Len(u)])
        THEN [ok |-> TRUE,
              n |-> Signed(s, 10 * DigitsVal(SubSeq(u, 1, Len(u) - 2))
                              + DigitVal(u[Len(u)]))]
        ELSE [ok |-> FALSE, n |-> 0]

Letters ==
    <<"a", "b", "c", "d", "e", "f", "g", "h", "i", "j", "k", "l", "m",
      "n", "o", "p", "q", "r", "s", "t", "u", "v", "w", "x", "y", "z">>

(* ord(c): the code point strings are compared by. *)
Ord(c) ==
    CASE c = "+" -> 43
      [] c = "-" -> 45
      [] c = "." -> 46
      [] IsDigit(c) -> 48 + DigitVal(c)
      [] c = ":" -> 58
      [] c = "N" -> 78
      [] c = "T" -> 84
      [] OTHER -> 96 + (CHOOSE i \in 1..26 : Letters[i] = c)

(* s < t of two str: Python's lexicographic comparison. *)
RECURSIVE StrLess(_, _)
StrLess(s, t) ==
    IF Len(t) = 0 THEN FALSE
    ELSE IF Len(s) = 0 THEN TRUE
    ELSE IF Ord(s[1]) # Ord(t[1]) THEN Ord(s[1]) < Ord(t[1])
    ELSE StrLess(Tail(s), Tail(t))

StartsWith(s, pre) == Len(pre) <= Len(s) /\ SubSeq(s, 1, Len(pre)) = pre

EndsWith(s, suf) ==
    Len(suf) <= Len(s) /\ SubSeq(s, Len(s) - Len(suf) + 1, Len(s)) = suf

----------------------------------------------------------------------------
(* Python values. *)

None == [k |-> "None", s |-> <<>>, n |-> 0]
StrV(s) == [k |-> "str", s |-> s, n |-> 0]
IntV(n) == [k |-> "int", s |-> <<>>, n |-> n]
FloatV(n) == [k |-> "float", s |-> <<>>, n |-> n]

(* bool(v) *)
Truthy(v) ==
    CASE v.k = "None" -> FALSE
      [] v.k = "str" -> Len(v.s) > 0
      [] OTHER -> v.n # 0

(* str(v) *)
str(v) ==
    CASE v.k = "str" -> v.s
      [] v.k = "int" -> IntToStr(v.n)
      [] v.k = "float" -> FloatToStr(v.n)
      [] OTHER -> <<"N", "o", "n", "e">>

Trunc(n) == IF n < 0 THEN -((-n) \div 10) ELSE n \div 10

(* int(v): ok is FALSE for the ValueError of an unparseable str and the    *)
(* TypeError of None.                                                      *)
int(v) ==
    CASE v.k = "int" -> [ok |-> TRUE, n |-> v.n]
      [] v.k = "float" -> [ok |-> TRUE, n |-> Trunc(v.n)]
      [] v.k = "str" -> ParseInt(v.s)
      [] OTHER -> [ok |-> FALSE, n |-> 0]

(* float(v) *)
float(v) ==
    CASE v.k = "float" -> [ok |-> TRUE, n |-> v.n]
      [] v.k = "int" -> [ok |-> TRUE, n |-> 10 * v.n]
      [] v.k = "str" -> ParseFloat(v.s)
      [] OTHER -> [ok |-> FALSE, n |-> 0]

(* dict.get(key, default) *)
Get(d, key, default) == IF key \in DOMAIN d THEN d[key] ELSE default

----------------------------------------------------------------------------
(* The pydantic models: each field's type and whether it is Optional. *)

Req(t) == [t |-> t, opt |-> FALSE]
Opt(t) == [t |-> t, opt |-> TRUE]

Vehicle ==
    [id |-> Opt("str"), make |-> Req("str"), model |-> Req("str"),
     year |-> Req("int"), vin |-> Req("str"), license_plate |-> Req("str"),
     color |-> Req("str"), mileage |-> Req("int"),
     created_at |-> Opt("str"), updated_at |-> Opt("str")]

MaintenanceRecord ==
    [id |-> Opt("str"), vehicle_id |-> Opt("str"), type |-> Req("str"),
     description |-> Req("str"), date |-> Req("str"), mileage |-> Req("int"),
     cost |-> Req("float"), service_provider |-> Req("str"),
     notes |-> Opt("str"), next_due_date |-> Opt("str"),
     next_due_mileage |-> Opt("int"),
     created_at |-> Opt("str"), updated_at |-> Opt("str")]

Insurance ==
    [id |-> Opt("str"), vehicle_id |-> Req("str"), provider |-> Req("str"),
     policy_number |-> Req("str"), start_date |-> Req("str"),
     end_date |-> Req("str"), premium |-> Req("float"),
     deductible |-> Req("float"), coverage_type |-> Req("str"),
     notes |-> Opt("str"), created_at |-> Opt("str")]

Registration ==
    [id |-> Opt("str"), vehicle_id |-> Req("str"),
     registration_number |-> Req("str"), issue_date |-> Req("str"),
     expiry_date |-> Req("str"), state |-> Req("str"), fee |-> Req("float"),
     notes |-> Opt("str"), created_at |-> Opt("str")]

(* pydantic's conversion of one value to a field's type. *)
Coerce(t, v) ==
    CASE t = "str" -> [ok |-> v.k = "str", v |-> v]
      [] t = "int" ->
           IF v.k = "int" THEN [ok |-> TRUE, v |-> v]
           ELSE IF v.k = "str"
           THEN [ok |-> ParseInt(v.s).ok, v |-> IntV(ParseInt(v.s).n)]
           ELSE IF v.k = "float"
           THEN [ok |-> v.n % 10 = 0, v |-> IntV(Trunc(v.n))]
           ELSE [ok |-> FALSE, v |-> v]
      [] OTHER ->
           IF v.k = "float" THEN [ok |-> TRUE, v |-> v]
           ELSE IF v.k = "int" THEN [ok |-> TRUE, v |-> FloatV(10 * v.n)]
           ELSE IF v.k = "str"
           THEN [ok |-> ParseFloat(v.s).ok, v |-> FloatV(ParseFloat(v.s).n)]
           ELSE [ok |-> FALSE, v |-> v]

Absent(data, f) == f \notin DOMAIN data \/ data[f] = None

(* Constructing a pydantic model from keyword arguments: ok is FALSE for   *)
(* a ValidationError; rec is the model, which is also its .dict().         *)
Validate(schema, data) ==
    [ok |-> \A f \in DOMAIN schema :
              /\ (f \notin DOMAIN data) => schema[f].opt
              /\ (f \in DOMAIN data /\ data[f] = None) => schema[f].opt
              /\ ~Absent(data, f) => Coerce(schema[f].t, data[f]).ok,
     rec |-> [f \in DOMAIN schema |->
                IF Absent(data, f) THEN None
                ELSE Coerce(schema[f].t, data[f]).v]]

----------------------------------------------------------------------------
(* The Redis store: a key is <<type, vehicle id>> for a vehicle and        *)
(* <<type, vehicle id, record id>> for a child record; KeyStr is the key   *)
(* as the string Redis holds.                                              *)

TypeChars(t) ==
    CASE t = "vehicle" -> <<"v", "e", "h", "i", "c", "l", "e">>
      [] t = "maintenance" ->
           <<"m", "a", "i", "n", "t", "e", "n", "a", "n", "c", "e">>
      [] t = "insurance" -> <<"i", "n", "s", "u", "r", "a", "n", "c", "e">>
      [] OTHER ->
           <<"r", "e", "g", "i", "s", "t", "r", "a", "t", "i", "o", "n">>

VehicleKey(vehicle_id) == <<"vehicle", vehicle_id>>

ChildKey(t, vehicle_id, record_id) == <<t, vehicle_id, record_id>>

KeyStr(k) ==
    IF Len(k) = 2 THEN TypeChars(k[1]) \o <<":">> \o k[2]
    ELSE TypeChars(k[1]) \o <<":">> \o k[2] \o <<":">> \o k[3]

ChildTypes == {"maintenance", "insurance", "registration"}

(* The pattern f'{t}:{vehicle_id}:*' and the pattern f'{t}:*'. *)
ChildPattern(t, vehicle_id) == TypeChars(t) \o <<":">> \o vehicle_id \o <<":">>
TypePattern(t) == TypeChars(t) \o <<":">>

(* r.keys(pattern + '*'): the keys of the store that match. *)
keys(st, pattern) == {k \in DOMAIN st : StartsWith(KeyStr(k), pattern)}

(* The orders in which Redis may enumerate a set of keys. *)
Orders(S) ==
    {o \in [1..Cardinality(S) -> S] : \A i, j \in DOMAIN o : o[i] = o[j] => i = j}

EmptyHash == <<>>

(* r.hgetall(key): the empty dict when the key does not exist. *)
hgetall(st, key) == IF key \in DOMAIN st THEN st[key] ELSE EmptyHash

exists(st, key) == key \in DOMAIN st

(* r.hset that writes a child record only while its vehicle is stored. *)
hsetUnderParent(st, key, m) ==
    IF Len(key) = 3 /\ <<"vehicle", key[2]>> \notin DOMAIN st THEN st
    ELSE [k \in DOMAIN st \cup {key} |->
            IF k = key
            THEN [f \in DOMAIN hgetall(st, key) \cup DOMAIN m |->
                    IF f \in DOMAIN m THEN m[f] ELSE hgetall(st, key)[f]]
            ELSE st[k]]

(* r.hset that sets the fields of a key only when the key exists. *)
hsetIfPresent(st, key, m) ==
    IF key \notin DOMAIN st THEN st
    ELSE [k \in DOMAIN st |->
            IF k = key
            THEN [f \in DOMAIN st[key] \cup DOMAIN m |->
                    IF f \in DOMAIN m THEN m[f] ELSE st[key][f]]
            ELSE st[k]]

(* r.hset(key, mapping=m): the fields of m are set, the others kept. *)
hset(st, key, m) ==
    LET old == hgetall(st, key)
        new == [f \in DOMAIN old \cup DOMAIN m |->
                  IF f \in DOMAIN m THEN m[f] ELSE old[f]]
    IN  [k \in DOMAIN st \cup {key} |-> IF k = key THEN new ELSE st[k]]

(* A create of child records that never misses the vehicle. *)
ParentMissingNever(st, vehicle_id) == FALSE

(* not r.exists(f'vehicle:{vehicle_id}'), of the creates of child records. *)
ParentMissing(st, vehicle_id) == ~exists(st, <<"vehicle", vehicle_id>>)

(* r.delete(key) *)
delete(st, key) == [k \in DOMAIN st \ {key} |-> st[k]]

(* str(uuid.uuid4()): the n-th identifier drawn. *)
uuid4(n) == <<"u">> \o NatToStr(n)

(* get_current_timestamp() when the clock reads t. *)
get_current_timestamp(t) == <<"T">> \o NatToStr(t)

(* What datetime.now() may read: the wall clock, which may also step back. *)
Clock == 0..MaxTime

----------------------------------------------------------------------------
(* Requests and responses. req[p] is the handler p runs and where it is;   *)
(* resp[p] is the last response p gave, with the request rq it answers:    *)
(* rq.r is what get_redis() returned, rq.pre the store at that moment and  *)
(* rq.scan the keys a list operation was given, in the order given.        *)
(* issued[v] is what create_vehicle was given and returned for vehicle v,  *)
(* kept until v is written again; issued[m] is what a maintenance create   *)
(* that succeeded was given for the record m, kept until m is deleted.     *)

Idle == [pc |-> "idle"]

NoResponse ==
    [rq |-> [op |-> "none"], status |-> 0, detail |-> "", out |-> <<>>,
     fault |-> FALSE]

Request(op, id, body, r) ==
    [op |-> op, id |-> id, body |-> body, r |-> r, pre |-> store,
     scan |-> <<>>]

Respond(p, rq, status, detail, out, fault) ==
    /\ resp' = [resp EXCEPT ![p] = [rq |-> rq, status |-> status,
                                    detail |-> detail, out |-> out,
                                    fault |-> fault]]
    /\ req' = [req EXCEPT ![p] = Idle]

(* return out *)
Return(p, rq, out) == Respond(p, rq, 200, "", out, FALSE)

(* raise HTTPException(status_code=status, detail=detail) *)
HTTPException(p, rq, status, detail) ==
    Respond(p, rq, status, detail, <<>>, FALSE)

(* except Exception: raise HTTPException(status_code=500, detail=str(e));  *)
(* fault says that the exception is a Redis command's connection error.    *)
InternalError(p, rq, fault) == Respond(p, rq, 500, "error", <<>>, fault)

(* An operation that answers with an empty result when it has no store. *)
UnavailableDegrades(p, rq) == Return(p, rq, <<>>)

(* if not r: raise HTTPException(status_code=503, ...) *)
Unavailable(p, rq) == HTTPException(p, rq, 503, "Database unavailable")

(* A list operation that refuses, as the write operations do. *)
DegradedRefuses(p, rq) == Unavailable(p, rq)

(* if not r: return [], of the list operations. *)
Degraded(p, rq) == Return(p, rq, <<>>)

(* except Exception: return [], of the list operations. *)
ReturnEmpty(p, rq, fault) == Respond(p, rq, 200, "", <<>>, fault)

Goto(p, rec) == req' = [req EXCEPT ![p] = rec] /\ UNCHANGED resp

(* The handler starts: the response to the request before is history. *)
Start(p, rec) ==
    /\ req' = [req EXCEPT ![p] = rec]
    /\ resp' = [resp EXCEPT ![p] = NoResponse]

At(p, pc) == req[p].pc = pc

(* A process takes a request when it runs none. *)
CanArrive(p) == At(p, "idle")

(* get_redis(): TRUE for the connection, FALSE for None (the ping failed). *)
get_redis == BOOLEAN

(* A Redis command gets its reply (TRUE) or raises a connection error. *)
Reply == BOOLEAN

----------------------------------------------------------------------------
(* What clients send. *)

(* The ids of request paths: the ids uuid4 draws, known to clients or not. *)
PathIds == {uuid4(n) : n \in 1..MaxIds}

VehicleA ==
    [id |-> None, make |-> StrV(<<"a">>), model |-> StrV(<<"x">>),
     year |-> IntV(2020), vin |-> StrV(<<"1", "a">>),
     license_plate |-> StrV(<<"p">>), color |-> StrV(<<"r">>),
     mileage |-> IntV(120), created_at |-> None, updated_at |-> None]

VehicleB ==
    [id |-> StrV(<<"u", "9">>), make |-> StrV(<<"b">>), model |-> StrV(<<"y">>),
     year |-> IntV(-1), vin |-> StrV(<<"2", "b">>),
     license_plate |-> StrV(<<>>), color |-> StrV(<<"g">>),
     mileage |-> IntV(0), created_at |-> StrV(<<"T", "9">>),
     updated_at |-> StrV(<<"T", "9">>)]

(* The bodies of vehicle requests, as FastAPI hands them to the handler. *)
VehicleBodies == {VehicleA, VehicleB}

----------------------------------------------------------------------------
(* Vehicle endpoints. Each handler is given the inputs clients may send.   *)

StrDict(h) == [f \in DOMAIN h |-> StrV(h[f])]

(* year and mileage to int, then the Vehicle model; ok is FALSE when       *)
(* int() or the model raises.                                              *)
DecodeVehicle(vehicle_data) ==
    LET d == StrDict(vehicle_data)
        nums == {"year", "mileage"} \cap DOMAIN d
        conv == [f \in DOMAIN d |->
                   IF f \in nums THEN IntV(int(d[f]).n) ELSE d[f]]
    IN  [ok |-> (\A f \in nums : int(d[f]).ok) /\ Validate(Vehicle, conv).ok,
         rec |-> Validate(Vehicle, conv).rec]

(* vehicle.dict() with a value of 0 or '' written as ''. *)
VehicleDictFalsy(vehicle) ==
    [f \in DOMAIN vehicle |->
       IF Truthy(vehicle[f]) THEN StrV(str(vehicle[f]))
       ELSE IF vehicle[f] # None THEN StrV(<<>>) ELSE None]

(* vehicle.dict() with every value that is not None turned into str. *)
VehicleDict(vehicle) ==
    [f \in DOMAIN vehicle |->
       IF vehicle[f] # None THEN StrV(str(vehicle[f])) ELSE None]

(* redis-py refuses a None value with a DataError. *)
HasNone(d) == \E f \in DOMAIN d : d[f] = None

Hash(d) == [f \in DOMAIN d |-> d[f].s]

(* The vehicle create_vehicle writes and returns. *)
NewVehicle(vehicle, vehicle_id, t1, t2) ==
    [vehicle EXCEPT !.id = StrV(vehicle_id),
                    !.created_at = StrV(get_current_timestamp(t1)),
                    !.updated_at = StrV(get_current_timestamp(t2))]

(* The vehicle update_vehicle writes and returns. *)
UpdatedVehicle(vehicle, vehicle_id, existing, t) ==
    [vehicle EXCEPT !.id = StrV(vehicle_id),
                    !.created_at = Get(StrDict(existing), "created_at", None),
                    !.updated_at = StrV(get_current_timestamp(t))]

Forget(vehicle_id) == [v \in DOMAIN issued \ {vehicle_id} |-> issued[v]]

Remember(vehicle_id, input, output) ==
    [v \in DOMAIN issued \cup {vehicle_id} |->
       IF v = vehicle_id THEN [input |-> input, output |-> output]
       ELSE issued[v]]

get_vehicles(p) ==
    \/ /\ CanArrive(p)
       /\ \E r \in get_redis :
            LET rq == Request("get_vehicles", <<>>, <<>>, r)
            IN  IF ~r THEN Degraded(p, rq)
                ELSE Start(p, [pc |-> "get_vehicles:keys", rq |-> rq])
       /\ UNCHANGED <<store, nextId, issued>>
    \/ /\ At(p, "get_vehicles:keys")
       /\ \E ok \in Reply :
            IF ~ok THEN ReturnEmpty(p, req[p].rq, TRUE)
            ELSE \E vehicle_keys \in Orders(keys(store, TypePattern("vehicle"))) :
                   IF vehicle_keys = <<>> THEN Return(p, req[p].rq, <<>>)
                   ELSE Goto(p, [pc |-> "get_vehicles:hgetall",
                                 rq |-> [req[p].rq EXCEPT !.scan = vehicle_keys],
                                 keys |-> vehicle_keys, vehicles |-> <<>>])
       /\ UNCHANGED <<store, nextId, issued>>
    \/ /\ At(p, "get_vehicles:hgetall")
       /\ \E ok \in Reply :
            LET vehicle_data == hgetall(store, Head(req[p].keys))
                dec == DecodeVehicle(vehicle_data)
                vehicles == IF vehicle_data = EmptyHash THEN req[p].vehicles
                            ELSE Append(req[p].vehicles, dec.rec)
            IN  IF ~ok THEN ReturnEmpty(p, req[p].rq, TRUE)
                ELSE IF vehicle_data # EmptyHash /\ ~dec.ok
                THEN ReturnEmpty(p, req[p].rq, FALSE)
                ELSE IF Len(req[p].keys) = 1
                THEN Return(p, req[p].rq, vehicles)
                ELSE Goto(p, [req[p] EXCEPT !.keys = Tail(@),
                                            !.vehicles = vehicles])
       /\ UNCHANGED <<store, nextId, issued>>

get_vehicle(p, ids) ==
    \/ /\ CanArrive(p)
       /\ \E vehicle_id \in ids, r \in get_redis :
            LET rq == Request("get_vehicle", vehicle_id, <<>>, r)
            IN  IF ~r THEN Unavailable(p, rq)
                ELSE Start(p, [pc |-> "get_vehicle:hgetall", rq |-> rq])
       /\ UNCHANGED <<store, nextId, issued>>
    \/ /\ At(p, "get_vehicle:hgetall")
       /\ \E ok \in Reply :
            LET rq == req[p].rq
                vehicle_data == hgetall(store, VehicleKey(rq.id))
                dec == DecodeVehicle(vehicle_data)
            IN  IF ~ok THEN InternalError(p, rq, TRUE)
                ELSE IF vehicle_data = EmptyHash
                THEN HTTPException(p, rq, 404, "Vehicle not found")
                ELSE IF ~dec.ok THEN InternalError(p, rq, FALSE)
                ELSE Return(p, rq, <<dec.rec>>)
       /\ UNCHANGED <<store, nextId, issued>>

create_vehicle(p, bodies) ==
    \/ /\ CanArrive(p)
       /\ nextId <= MaxIds
       /\ \E vehicle \in bodies, r \in get_redis :
            LET rq == Request("create_vehicle", <<>>, vehicle, r)
            IN  IF ~r THEN Unavailable(p, rq)
                ELSE Start(p, [pc |-> "create_vehicle:hset", rq |-> rq])
       /\ UNCHANGED <<store, nextId, issued>>
    \/ /\ At(p, "create_vehicle:hset")
       /\ nextId <= MaxIds
       /\ \E ok \in Reply, t1 \in Clock, t2 \in Clock :
            LET rq == req[p].rq
                vehicle_id == uuid4(nextId)
                vehicle == NewVehicle(rq.body, vehicle_id, t1, t2)
                vehicle_dict == VehicleDict(vehicle)
            IN  IF ~ok \/ HasNone(vehicle_dict)
                THEN /\ InternalError(p, rq, ~ok)
                     /\ UNCHANGED <<store, issued, nextId>>
                ELSE /\ store' = hset(store, VehicleKey(vehicle_id),
                                      Hash(vehicle_dict))
                     /\ issued' = Remember(vehicle_id, rq.body, vehicle)
                     /\ nextId' = nextId + 1
                     /\ Return(p, rq, <<vehicle>>)

update_vehicle(p, ids, bodies) ==
    \/ /\ CanArrive(p)
       /\ \E vehicle_id \in ids, vehicle \in bodies, r \in get_redis :
            LET rq == Request("update_vehicle", vehicle_id, vehicle, r)
            IN  IF ~r THEN Unavailable(p, rq)
                ELSE Start(p, [pc |-> "update_vehicle:hgetall", rq |-> rq])
       /\ UNCHANGED <<store, nextId, issued>>
    \/ /\ At(p, "update_vehicle:hgetall")
       /\ \E ok \in Reply :
            LET rq == req[p].rq
                existing == hgetall(store, VehicleKey(rq.id))
            IN  IF ~ok THEN InternalError(p, rq, TRUE)
                ELSE IF existing = EmptyHash
                THEN HTTPException(p, rq, 404, "Vehicle not found")
                ELSE Goto(p, [pc |-> "update_vehicle:hset", rq |-> rq,
                              existing |-> existing])
       /\ UNCHANGED <<store, nextId, issued>>
    \/ /\ At(p, "update_vehicle:hset")
       /\ \E ok \in Reply, t \in Clock :
            LET rq == req[p].rq
                vehicle == UpdatedVehicle(rq.body, rq.id, req[p].existing, t)
                vehicle_dict == VehicleDict(vehicle)
            IN  IF ~ok \/ HasNone(vehicle_dict)
                THEN /\ InternalError(p, rq, ~ok)
                     /\ UNCHANGED <<store, issued>>
                ELSE /\ store' = hset(store, VehicleKey(rq.id),
                                      Hash(vehicle_dict))
                     /\ issued' = Forget(rq.id)
                     /\ Return(p, rq, <<vehicle>>)
       /\ UNCHANGED nextId

(* delete_vehicle that deletes the vehicle's key and no child key. *)
DeleteOrderNoCascade(child_keys, vehicle_key) == <<vehicle_key>>

(* delete_vehicle that deletes the vehicle's key before the child keys. *)
DeleteOrderVehicleFirst(child_keys, vehicle_key) ==
    <<vehicle_key>> \o child_keys

(* The keys delete_vehicle deletes, in the order it deletes them, given    *)
(* the child keys it found and the vehicle's key.                          *)
DeleteOrder(child_keys, vehicle_key) == child_keys \o <<vehicle_key>>

delete_vehicle(p, ids) ==
    \/ /\ CanArrive(p)
       /\ \E vehicle_id \in ids, r \in get_redis :
            LET rq == Request("delete_vehicle", vehicle_id, <<>>, r)
            IN  IF ~r THEN Unavailable(p, rq)
                ELSE Start(p, [pc |-> "delete_vehicle:exists", rq |-> rq])
       /\ UNCHANGED <<store, nextId, issued>>
    \/ /\ At(p, "delete_vehicle:exists")
       /\ \E ok \in Reply :
            LET rq == req[p].rq
            IN  IF ~ok THEN InternalError(p, rq, TRUE)
                ELSE IF ~exists(store, VehicleKey(rq.id))
                THEN HTTPException(p, rq, 404, "Vehicle not found")
                ELSE Goto(p, [pc |-> "delete_vehicle:keys", rq |-> rq,
                              types |-> <<"maintenance", "insurance",
                                          "registration">>,
                              keys |-> <<>>])
       /\ UNCHANGED <<store, nextId, issued>>
    \/ /\ At(p, "delete_vehicle:keys")
       /\ \E ok \in Reply :
            LET rq == req[p].rq
            IN  IF ~ok THEN InternalError(p, rq, TRUE)
                ELSE \E found \in Orders(keys(store,
                                    ChildPattern(Head(req[p].types), rq.id))) :
                       LET all == req[p].keys \o found
                       IN  Goto(p, IF Len(req[p].types) > 1
                                   THEN [req[p] EXCEPT !.types = Tail(@),
                                                       !.keys = all]
                                   ELSE [pc |-> "delete_vehicle:delete",
                                         rq |-> [rq EXCEPT !.scan = all],
                                         keys |-> DeleteOrder(all,
                                                    VehicleKey(rq.id))])
       /\ UNCHANGED <<store, nextId, issued>>
    \/ /\ At(p, "delete_vehicle:delete")
       /\ \E ok \in Reply :
            LET rq == req[p].rq
                key == Head(req[p].keys)
            IN  IF ~ok
                THEN InternalError(p, rq, TRUE) /\ UNCHANGED <<store, issued>>
                ELSE /\ store' = delete(store, key)
                     /\ issued' = Forget(key[Len(key)])
                     /\ IF Len(req[p].keys) > 1
                        THEN Goto(p, [req[p] EXCEPT !.keys = Tail(@)])
                        ELSE Return(p, rq, <<>>)
       /\ UNCHANGED nextId

----------------------------------------------------------------------------
(* Child records: what clients send. *)

D1 == <<"2", "0", "2", "4", "-", "0", "1", "-", "0", "1">>
D2 == <<"2", "0", "2", "3", "-", "0", "6", "-", "1", "5">>
D3 == <<"2", "0", "2", "4", "-", "1", "2", "-", "3", "1">>
Abc == <<"a", "b", "c">>

(* JSON bodies of maintenance requests (Dict[str, Any]): every field       *)
(* given; few fields, numbers as strings; mileage and cost unparseable;    *)
(* cost unparseable; next_due_mileage unparseable, with identity fields;   *)
(* a null type.                                                            *)
MaintenanceFull ==
    [type |-> StrV(<<"o">>), description |-> StrV(<<"d">>), date |-> StrV(D1),
     mileage |-> IntV(100), cost |-> FloatV(55),
     service_provider |-> StrV(<<"s">>), notes |-> StrV(<<"n">>),
     next_due_date |-> StrV(D3), next_due_mileage |-> IntV(200)]

MaintenanceSparse ==
    [date |-> StrV(D2), mileage |-> StrV(<<"1", "2">>), cost |-> IntV(3),
     next_due_mileage |-> StrV(<<"7">>)]

MaintenanceBadMileage ==
    [date |-> StrV(D1), mileage |-> StrV(Abc), cost |-> StrV(Abc)]

MaintenanceBadCost ==
    [date |-> StrV(D1), mileage |-> IntV(5), cost |-> StrV(Abc)]

MaintenanceBadDue ==
    [id |-> StrV(<<"u", "9">>), vehicle_id |-> StrV(<<"u", "9">>),
     date |-> StrV(D3), mileage |-> IntV(7), cost |-> FloatV(10),
     notes |-> StrV(<<>>), next_due_mileage |-> StrV(Abc)]

MaintenanceNullType ==
    [type |-> None, date |-> StrV(D1), mileage |-> IntV(1), cost |-> IntV(1)]

(* One maintenance body with the notes and the next_due_date left out,    *)
(* null, and the empty string.                                            *)
MaintenanceOmitted ==
    [type |-> StrV(<<"o">>), description |-> StrV(<<"d">>), date |-> StrV(D2),
     mileage |-> IntV(100), cost |-> FloatV(55),
     service_provider |-> StrV(<<"s">>), next_due_mileage |-> IntV(200)]

MaintenanceNull ==
    [type |-> StrV(<<"o">>), description |-> StrV(<<"d">>), date |-> StrV(D2),
     mileage |-> IntV(100), cost |-> FloatV(55),
     service_provider |-> StrV(<<"s">>), next_due_mileage |-> IntV(200),
     notes |-> None, next_due_date |-> None]

MaintenanceEmptyStrings ==
    [type |-> StrV(<<"o">>), description |-> StrV(<<"d">>), date |-> StrV(D2),
     mileage |-> IntV(100), cost |-> FloatV(55),
     service_provider |-> StrV(<<"s">>), next_due_mileage |-> IntV(200),
     notes |-> StrV(<<>>), next_due_date |-> StrV(<<>>)]

(* Bodies of updates that leave fields out: every field; every field but  *)
(* the notes.                                                             *)
MaintenanceNoFields == <<>>

MaintenanceNotesOnly == [notes |-> StrV(<<"m">>)]

EmptyOptionalBodies ==
    {MaintenanceOmitted, MaintenanceNull, MaintenanceEmptyStrings}

MaintenanceBodies ==
    {MaintenanceFull, MaintenanceSparse, MaintenanceBadMileage,
     MaintenanceBadCost, MaintenanceBadDue, MaintenanceNullType}

(* A maintenance request path of the form <vehicle id>:<record id>. *)
PairId == uuid4(1) \o <<":">> \o uuid4(2)

MaintenancePathIds == PathIds \cup {PairId}

InsuranceA ==
    [id |-> None, vehicle_id |-> StrV(uuid4(1)), provider |-> StrV(<<"p">>),
     policy_number |-> StrV(<<"7">>), start_date |-> StrV(D1),
     end_date |-> StrV(D3), premium |-> FloatV(5005),
     deductible |-> FloatV(1000), coverage_type |-> StrV(<<"f">>),
     notes |-> None, created_at |-> None]

InsuranceB ==
    [id |-> StrV(<<"u", "9">>), vehicle_id |-> StrV(<<"u", "9">>),
     provider |-> StrV(<<"q">>), policy_number |-> StrV(<<"8">>),
     start_date |-> StrV(D3), end_date |-> StrV(D3), premium |-> FloatV(-5),
     deductible |-> FloatV(0), coverage_type |-> StrV(<<>>),
     notes |-> StrV(<<"n">>), created_at |-> StrV(<<"T", "9">>)]

InsuranceBodies == {InsuranceA, InsuranceB}

RegistrationA ==
    [id |-> None, vehicle_id |-> StrV(uuid4(1)),
     registration_number |-> StrV(<<"r", "1">>), issue_date |-> StrV(D2),
     expiry_date |-> StrV(D3), state |-> StrV(<<"c">>), fee |-> FloatV(450),
     notes |-> None, created_at |-> None]

RegistrationB ==
    [id |-> StrV(<<"u", "9">>), vehicle_id |-> StrV(<<"u", "9">>),
     registration_number |-> StrV(<<"r", "2">>), issue_date |-> StrV(D1),
     expiry_date |-> StrV(D1), state |-> StrV(<<"t">>), fee |-> FloatV(0),
     notes |-> StrV(<<"n">>), created_at |-> StrV(<<"T", "9">>)]

RegistrationBodies == {RegistrationA, RegistrationB}

----------------------------------------------------------------------------
(* The codec of child records. *)

(* Every value of record.dict() as str, None as ''. *)
ChildHash(record_dict) ==
    [f \in DOMAIN record_dict |->
       IF record_dict[f] # None THEN str(record_dict[f]) ELSE <<>>]

(* On a read: each numeric field that is present and not '' through int() *)
(* or float(); ok is FALSE when one raises.                               *)
DecodeNumbers(record_data, ints, floats) ==
    LET d == StrDict(record_data)
        there(f) == f \in DOMAIN d /\ Truthy(d[f])
    IN  [ok |-> /\ \A f \in ints : there(f) => int(d[f]).ok
                /\ \A f \in floats : there(f) => float(d[f]).ok,
         data |-> [f \in DOMAIN d |->
                     IF f \in ints /\ there(f) THEN IntV(int(d[f]).n)
                     ELSE IF f \in floats /\ there(f)
                     THEN FloatV(float(d[f]).n)
                     ELSE d[f]]]

MaintenanceInts == {"mileage", "next_due_mileage"}
MaintenanceFloats == {"cost"}

(* One record of a list: the numbers decoded, then the pydantic model. *)
DecodeRecord(schema, record_data, ints, floats) ==
    LET dec == DecodeNumbers(record_data, ints, floats)
    IN  [ok |-> dec.ok /\ Validate(schema, dec.data).ok,
         rec |-> Validate(schema, dec.data).rec]

(* The records as they were read. *)
unsorted(records, field) == records

(* sorted(records, key=lambda x: x[field], reverse=True): stable. *)
RECURSIVE InsertDesc(_, _, _)
InsertDesc(x, s, field) ==
    IF s = <<>> THEN <<x>>
    ELSE IF StrLess(Head(s)[field].s, x[field].s) THEN <<x>> \o s
    ELSE <<Head(s)>> \o InsertDesc(x, Tail(s), field)

RECURSIVE sorted(_, _)
sorted(records, field) ==
    IF records = <<>> THEN <<>>
    ELSE InsertDesc(records[Len(records)],
                    sorted(SubSeq(records, 1, Len(records) - 1), field), field)

(* GET /api/vehicles/{vehicle_id}/<type>: the three list operations. *)
ListRecords(p, ids, op, t, schema, ints, floats, field) ==
    \/ /\ CanArrive(p)
       /\ \E vehicle_id \in ids, r \in get_redis :
            LET rq == Request(op, vehicle_id, <<>>, r)
            IN  IF ~r THEN Degraded(p, rq)
                ELSE Start(p, [pc |-> "list:keys", rq |-> rq])
       /\ UNCHANGED <<store, nextId, issued>>
    \/ /\ At(p, "list:keys")
       /\ req[p].rq.op = op
       /\ \E ok \in Reply :
            LET rq == req[p].rq
            IN  IF ~ok THEN ReturnEmpty(p, rq, TRUE)
                ELSE \E ks \in Orders(keys(store, ChildPattern(t, rq.id))) :
                       IF ks = <<>> THEN Return(p, rq, <<>>)
                       ELSE Goto(p, [pc |-> "list:hgetall",
                                     rq |-> [rq EXCEPT !.scan = ks],
                                     keys |-> ks, records |-> <<>>])
       /\ UNCHANGED <<store, nextId, issued>>
    \/ /\ At(p, "list:hgetall")
       /\ req[p].rq.op = op
       /\ \E ok \in Reply :
            LET rq == req[p].rq
                record_data == hgetall(store, Head(req[p].keys))
                dec == DecodeRecord(schema, record_data, ints, floats)
                records == IF record_data = EmptyHash THEN req[p].records
                           ELSE Append(req[p].records, dec.rec)
            IN  IF ~ok THEN ReturnEmpty(p, rq, TRUE)
                ELSE IF record_data # EmptyHash /\ ~dec.ok
                THEN ReturnEmpty(p, rq, FALSE)
                ELSE IF Len(req[p].keys) = 1
                THEN Return(p, rq, sorted(records, field))
                ELSE Goto(p, [req[p] EXCEPT !.keys = Tail(@),
                                            !.records = records])
       /\ UNCHANGED <<store, nextId, issued>>

get_maintenance_records(p, ids) ==
    ListRecords(p, ids, "get_maintenance_records", "maintenance",
                MaintenanceRecord, MaintenanceInts, MaintenanceFloats, "date")

get_insurance_records(p, ids) ==
    ListRecords(p, ids, "get_insurance_records", "insurance", Insurance,
                {}, {"premium", "deductible"}, "start_date")

get_registration_records(p, ids) ==
    ListRecords(p, ids, "get_registration_records", "registration",
                Registration, {}, {"fee"}, "issue_date")

----------------------------------------------------------------------------
(* Maintenance endpoints. *)

(* Every maintenance key taken for a key of the record asked for. *)
MatchingAny(ks, maintenance_id) == ks

(* [key for key in keys if key.endswith(f':{maintenance_id}')] *)
Matching(ks, maintenance_id) ==
    SelectSeq(ks, LAMBDA key : EndsWith(KeyStr(key), <<":">> \o maintenance_id))

(* An optional string taken from the request as it is given. *)
OptionalFieldVerbatim(data, f) == Get(data, f, None)

(* data.get(f, '') if data.get(f) else None *)
OptionalField(data, f) ==
    IF Truthy(Get(data, f, None)) THEN Get(data, f, StrV(<<>>)) ELSE None

(* The clean_data of a create or an update; dflt gives what a field is     *)
(* when the request leaves it out. err names the field int() or float()    *)
(* refused.                                                                *)
CleanData(vehicle_id, data, dflt) ==
    LET mileage == int(Get(data, "mileage", dflt.mileage))
        cost == float(Get(data, "cost", dflt.cost))
        due == Get(data, "next_due_mileage", None)
    IN  [err |-> IF ~mileage.ok THEN "Invalid mileage value"
                 ELSE IF ~cost.ok THEN "Invalid cost value" ELSE "",
         clean |->
           [vehicle_id |-> vehicle_id,
            type |-> Get(data, "type", dflt.type),
            description |-> Get(data, "description", dflt.description),
            date |-> Get(data, "date", dflt.date),
            service_provider |->
              Get(data, "service_provider", dflt.service_provider),
            mileage |-> IntV(mileage.n),
            cost |-> FloatV(cost.n),
            notes |-> OptionalField(data, "notes"),
            next_due_date |-> OptionalField(data, "next_due_date"),
            next_due_mileage |->
              IF Truthy(due) /\ int(due).ok THEN IntV(int(due).n) ELSE None]]

CreateDefaults ==
    [type |-> StrV(<<>>), description |-> StrV(<<>>), date |-> StrV(<<>>),
     service_provider |-> StrV(<<>>), mileage |-> IntV(0), cost |-> FloatV(0)]

(* An update that takes what the request leaves out as a create does. *)
UpdateDefaultsBlank(existing_data) == CreateDefaults

UpdateDefaults(existing_data) ==
    LET e == StrDict(existing_data)
    IN  [type |-> Get(e, "type", StrV(<<>>)),
         description |-> Get(e, "description", StrV(<<>>)),
         date |-> Get(e, "date", StrV(<<>>)),
         service_provider |-> Get(e, "service_provider", StrV(<<>>)),
         mileage |-> Get(e, "mileage", IntV(0)),
         cost |-> Get(e, "cost", FloatV(0))]

(* A maintenance create that goes on when int() or float() has refused. *)
CreateCheckLenient(vehicle_exists, cd, valid) ==
    IF ~vehicle_exists THEN "Vehicle not found"
    ELSE IF ~valid THEN "Validation error"
    ELSE ""

(* A maintenance create that looks at the numbers before the vehicle. *)
CreateCheckNumbersFirst(vehicle_exists, cd, valid) ==
    IF cd.err # "" THEN cd.err
    ELSE IF ~vehicle_exists THEN "Vehicle not found"
    ELSE IF ~valid THEN "Validation error"
    ELSE ""

(* What a maintenance create answers before it writes: "" to go on. *)
CreateCheck(vehicle_exists, cd, valid) ==
    IF ~vehicle_exists THEN "Vehicle not found"
    ELSE IF cd.err # "" THEN cd.err
    ELSE IF ~valid THEN "Validation error"
    ELSE ""

(* The record a maintenance create writes and returns. *)
NewMaintenance(record, record_id, vehicle_id, t1, t2) ==
    [record EXCEPT !.id = StrV(record_id),
                   !.vehicle_id = StrV(vehicle_id),
                   !.created_at = StrV(get_current_timestamp(t1)),
                   !.updated_at = StrV(get_current_timestamp(t2))]

(* The record a maintenance update writes and returns. *)
UpdatedMaintenance(record, maintenance_id, existing_data, t) ==
    [record EXCEPT !.id = StrV(maintenance_id),
                   !.created_at =
                      Get(StrDict(existing_data), "created_at", None),
                   !.updated_at = StrV(get_current_timestamp(t))]

get_maintenance_record(p, ids) ==
    \/ /\ CanArrive(p)
       /\ \E maintenance_id \in ids, r \in get_redis :
            LET rq == Request("get_maintenance_record", maintenance_id, <<>>, r)
            IN  IF ~r THEN Unavailable(p, rq)
                ELSE Start(p, [pc |-> "get_maintenance_record:keys", rq |-> rq])
       /\ UNCHANGED <<store, nextId, issued>>
    \/ /\ At(p, "get_maintenance_record:keys")
       /\ \E ok \in Reply :
            LET rq == req[p].rq
            IN  IF ~ok THEN InternalError(p, rq, TRUE)
                ELSE \E ks \in Orders(keys(store, TypePattern("maintenance"))) :
                       IF Matching(ks, rq.id) = <<>>
                       THEN HTTPException(p, rq, 404,
                                          "Maintenance record not found")
                       ELSE Goto(p, [pc |-> "get_maintenance_record:hgetall",
                                     rq |-> rq, keys |-> Matching(ks, rq.id)])
       /\ UNCHANGED <<store, nextId, issued>>
    \/ /\ At(p, "get_maintenance_record:hgetall")
       /\ \E ok \in Reply :
            LET rq == req[p].rq
                record_data == hgetall(store, Head(req[p].keys))
                dec == DecodeNumbers(record_data, MaintenanceInts,
                                     MaintenanceFloats)
            IN  IF ~ok THEN InternalError(p, rq, TRUE)
                ELSE IF record_data # EmptyHash
                THEN IF dec.ok THEN Return(p, rq, <<dec.data>>)
                     ELSE InternalError(p, rq, FALSE)
                ELSE IF Len(req[p].keys) = 1
                THEN HTTPException(p, rq, 404, "Maintenance record not found")
                ELSE Goto(p, [req[p] EXCEPT !.keys = Tail(@)])
       /\ UNCHANGED <<store, nextId, issued>>

create_maintenance_record(p, ids, bodies) ==
    \/ /\ CanArrive(p)
       /\ nextId <= MaxIds
       /\ \E vehicle_id \in ids, data \in bodies, r \in get_redis :
            LET rq == Request("create_maintenance_record", vehicle_id, data, r)
            IN  IF ~r THEN Unavailable(p, rq)
                ELSE Start(p, [pc |-> "create_maintenance_record:exists",
                              rq |-> rq])
       /\ UNCHANGED <<store, nextId, issued>>
    \/ /\ At(p, "create_maintenance_record:exists")
       /\ \E ok \in Reply :
            LET rq == req[p].rq
                cd == CleanData(StrV(rq.id), rq.body, CreateDefaults)
                val == Validate(MaintenanceRecord, cd.clean)
                err == CreateCheck(~ParentMissing(store, rq.id), cd, val.ok)
            IN  IF ~ok THEN InternalError(p, rq, TRUE)
                ELSE IF err = "Vehicle not found"
                THEN HTTPException(p, rq, 404, err)
                ELSE IF err # "" THEN HTTPException(p, rq, 422, err)
                ELSE Goto(p, [pc |-> "create_maintenance_record:hset",
                              rq |-> rq, record |-> val.rec])
       /\ UNCHANGED <<store, nextId, issued>>
    \/ /\ At(p, "create_maintenance_record:hset")
       /\ nextId <= MaxIds
       /\ \E ok \in Reply, t1 \in Clock, t2 \in Clock :
            LET rq == req[p].rq
                record_id == uuid4(nextId)
                record == NewMaintenance(req[p].record, record_id, rq.id,
                                         t1, t2)
            IN  IF ~ok
                THEN InternalError(p, rq, TRUE) /\ UNCHANGED <<store, nextId>>
                ELSE /\ store' = hset(store,
                                      ChildKey("maintenance", rq.id, record_id),
                                      ChildHash(record))
                     /\ nextId' = nextId + 1
                     /\ Goto(p, [pc |-> "create_maintenance_record:hgetall",
                                 rq |-> rq, record |-> record])
       /\ UNCHANGED issued
    \/ /\ At(p, "create_maintenance_record:hgetall")
       /\ \E ok \in Reply :
            LET rq == req[p].rq
                record == req[p].record
            IN  IF ~ok THEN InternalError(p, rq, TRUE) /\ UNCHANGED issued
                ELSE /\ issued' = Remember(record.id.s, rq.body, None)
                     /\ Return(p, rq, <<record>>)
       /\ UNCHANGED <<store, nextId>>

update_maintenance_record(p, ids, bodies) ==
    \/ /\ CanArrive(p)
       /\ \E maintenance_id \in ids, data \in bodies, r \in get_redis :
            LET rq == Request("update_maintenance_record", maintenance_id,
                              data, r)
            IN  IF ~r THEN Unavailable(p, rq)
                ELSE Start(p, [pc |-> "update_maintenance_record:keys",
                              rq |-> rq])
       /\ UNCHANGED <<store, nextId, issued>>
    \/ /\ At(p, "update_maintenance_record:keys")
       /\ \E ok \in Reply :
            LET rq == req[p].rq
            IN  IF ~ok THEN InternalError(p, rq, TRUE)
                ELSE \E ks \in Orders(keys(store, TypePattern("maintenance"))) :
                       IF Matching(ks, rq.id) = <<>>
                       THEN HTTPException(p, rq, 404,
                                          "Maintenance record not found")
                       ELSE Goto(p, [pc |-> "update_maintenance_record:hgetall",
                                     rq |-> rq,
                                     maintenance_key |->
                                       Head(Matching(ks, rq.id))])
       /\ UNCHANGED <<store, nextId, issued>>
    \/ /\ At(p, "update_maintenance_record:hgetall")
       /\ \E ok \in Reply :
            LET rq == req[p].rq
                existing_data == hgetall(store, req[p].maintenance_key)
                cd == CleanData(Get(StrDict(existing_data), "vehicle_id",
                                    StrV(<<>>)),
                                rq.body, UpdateDefaults(existing_data))
                val == Validate(MaintenanceRecord, cd.clean)
            IN  IF ~ok THEN InternalError(p, rq, TRUE)
                ELSE IF existing_data = EmptyHash
                THEN HTTPException(p, rq, 404, "Maintenance record not found")
                ELSE IF cd.err # "" THEN HTTPException(p, rq, 422, cd.err)
                ELSE IF ~val.ok
                THEN HTTPException(p, rq, 422, "Validation error")
                ELSE Goto(p, [pc |-> "update_maintenance_record:hset",
                              rq |-> rq,
                              maintenance_key |-> req[p].maintenance_key,
                              existing_data |-> existing_data,
                              record |-> val.rec])
       /\ UNCHANGED <<store, nextId, issued>>
    \/ /\ At(p, "update_maintenance_record:hset")
       /\ \E ok \in Reply, t \in Clock :
            LET rq == req[p].rq
                record == UpdatedMaintenance(req[p].record, rq.id,
                                             req[p].existing_data, t)
            IN  IF ~ok THEN InternalError(p, rq, TRUE) /\ UNCHANGED store
                ELSE /\ store' = hset(store, req[p].maintenance_key,
                                      ChildHash(record))
                     /\ Return(p, rq, <<record>>)
       /\ UNCHANGED <<nextId, issued>>

delete_maintenance_record(p, ids) ==
    \/ /\ CanArrive(p)
       /\ \E maintenance_id \in ids, r \in get_redis :
            LET rq == Request("delete_maintenance_record", maintenance_id,
                              <<>>, r)
            IN  IF ~r THEN Unavailable(p, rq)
                ELSE Start(p, [pc |-> "delete_maintenance_record:keys",
                              rq |-> rq])
       /\ UNCHANGED <<store, nextId, issued>>
    \/ /\ At(p, "delete_maintenance_record:keys")
       /\ \E ok \in Reply :
            LET rq == req[p].rq
            IN  IF ~ok THEN InternalError(p, rq, TRUE)
                ELSE \E ks \in Orders(keys(store, TypePattern("maintenance"))) :
                       IF Matching(ks, rq.id) = <<>>
                       THEN HTTPException(p, rq, 404,
                                          "Maintenance record not found")
                       ELSE Goto(p, [pc |-> "delete_maintenance_record:delete",
                                     rq |-> rq,
                                     maintenance_key |->
                                       Head(Matching(ks, rq.id))])
       /\ UNCHANGED <<store, nextId, issued>>
    \/ /\ At(p, "delete_maintenance_record:delete")
       /\ \E ok \in Reply :
            IF ~ok
            THEN InternalError(p, req[p].rq, TRUE) /\ UNCHANGED <<store, issued>>
            ELSE /\ store' = delete(store, req[p].maintenance_key)
                 /\ issued' = Forget(req[p].maintenance_key[3])
                 /\ Return(p, req[p].rq, <<>>)
       /\ UNCHANGED nextId

----------------------------------------------------------------------------
(* Insurance and registration endpoints. *)

(* The record an insurance or registration create writes and returns. *)
NewChild(record, record_id, vehicle_id, t) ==
    [record EXCEPT !.id = StrV(record_id),
                   !.vehicle_id = StrV(vehicle_id),
                   !.created_at = StrV(get_current_timestamp(t))]

CreateChild(p, ids, bodies, op, t) ==
    \/ /\ CanArrive(p)
       /\ nextId <= MaxIds
       /\ \E vehicle_id \in ids, record \in bodies, r \in get_redis :
            LET rq == Request(op, vehicle_id, record, r)
            IN  IF ~r THEN Unavailable(p, rq)
                ELSE Start(p, [pc |-> "create:exists", rq |-> rq])
       /\ UNCHANGED <<store, nextId, issued>>
    \/ /\ At(p, "create:exists")
       /\ req[p].rq.op = op
       /\ \E ok \in Reply :
            LET rq == req[p].rq
            IN  IF ~ok THEN InternalError(p, rq, TRUE)
                ELSE IF ParentMissing(store, rq.id)
                THEN HTTPException(p, rq, 404, "Vehicle not found")
                ELSE Goto(p, [pc |-> "create:hset", rq |-> rq])
       /\ UNCHANGED <<store, nextId, issued>>
    \/ /\ At(p, "create:hset")
       /\ req[p].rq.op = op
       /\ nextId <= MaxIds
       /\ \E ok \in Reply, ts \in Clock :
            LET rq == req[p].rq
                record_id == uuid4(nextId)
                record == NewChild(rq.body, record_id, rq.id, ts)
            IN  IF ~ok
                THEN InternalError(p, rq, TRUE) /\ UNCHANGED <<store, nextId>>
                ELSE /\ store' = hset(store, ChildKey(t, rq.id, record_id),
                                      ChildHash(record))
                     /\ nextId' = nextId + 1
                     /\ Return(p, rq, <<record>>)
       /\ UNCHANGED issued

create_insurance_record(p, ids, bodies) ==
    CreateChild(p, ids, bodies, "create_insurance_record", "insurance")

create_registration_record(p, ids, bodies) ==
    CreateChild(p, ids, bodies, "create_registration_record", "registration")

----------------------------------------------------------------------------
(* Specifications. *)

Procs == {1}

Init ==
    /\ store = <<>>
    /\ nextId = 1
    /\ req = [p \in Procs |-> Idle]
    /\ resp = [p \in Procs |-> NoResponse]
    /\ issued = <<>>

(* Every endpoint, for the first vehicle and its records. *)
First == {uuid4(1)}

Next ==
    \E p \in Procs :
      \/ get_vehicles(p)
      \/ get_vehicle(p, First)
      \/ create_vehicle(p, {VehicleA})
      \/ update_vehicle(p, First, {VehicleB})
      \/ delete_vehicle(p, First)
      \/ get_maintenance_records(p, First)
      \/ get_maintenance_record(p, {uuid4(2), PairId})
      \/ create_maintenance_record(p, First, {MaintenanceFull})
      \/ update_maintenance_record(p, {uuid4(2), PairId}, {MaintenanceBadDue})
      \/ delete_maintenance_record(p, {uuid4(2), PairId})
      \/ get_insurance_records(p, First)
      \/ create_insurance_record(p, First, {InsuranceB})
      \/ get_registration_records(p, First)
      \/ create_registration_record(p, First, {RegistrationB})

Spec == Init /\ [][Next]_vars

(* Vehicles with children of the three types, and their deletion. *)
NextCascade ==
    \E p \in Procs :
      \/ create_vehicle(p, {VehicleA})
      \/ create_maintenance_record(p, PathIds, {MaintenanceFull})
      \/ create_insurance_record(p, PathIds, {InsuranceA})
      \/ create_registration_record(p, PathIds, {RegistrationA})
      \/ delete_vehicle(p, PathIds)

SpecCascade == Init /\ [][NextCascade]_vars

(* The vehicle endpoints. *)
NextVehicle ==
    \E p \in Procs :
      \/ get_vehicles(p)
      \/ get_vehicle(p, PathIds)
      \/ create_vehicle(p, VehicleBodies)
      \/ update_vehicle(p, PathIds, {VehicleB})
      \/ delete_vehicle(p, PathIds)

SpecVehicle == Init /\ [][NextVehicle]_vars

(* The maintenance endpoints that create, read and delete, with every body. *)
NextMaintenance ==
    \E p \in Procs :
      \/ create_vehicle(p, {VehicleA})
      \/ create_maintenance_record(p, PathIds, MaintenanceBodies)
      \/ get_maintenance_records(p, PathIds)
      \/ get_maintenance_record(p, PathIds)
      \/ delete_maintenance_record(p, PathIds)

SpecMaintenance == Init /\ [][NextMaintenance]_vars

(* The three lists of the child records of a vehicle. *)
NextList ==
    \E p \in Procs :
      \/ create_vehicle(p, {VehicleA})
      \/ create_maintenance_record(p, PathIds,
                                   {MaintenanceFull, MaintenanceSparse})
      \/ create_insurance_record(p, PathIds, InsuranceBodies)
      \/ create_registration_record(p, PathIds, RegistrationBodies)
      \/ get_maintenance_records(p, PathIds)
      \/ get_insurance_records(p, PathIds)
      \/ get_registration_records(p, PathIds)

SpecList == Init /\ [][NextList]_vars

(* Maintenance records written with and without their optional strings,    *)
(* and read.                                                               *)
Second == {uuid4(2)}

NextOptional ==
    \E p \in Procs :
      \/ create_vehicle(p, {VehicleA})
      \/ create_maintenance_record(p, First,
                                   EmptyOptionalBodies \cup {MaintenanceFull})
      \/ update_maintenance_record(p, Second, EmptyOptionalBodies)
      \/ get_maintenance_record(p, Second)
      \/ get_maintenance_records(p, First)

SpecOptional == Init /\ [][NextOptional]_vars

(* Updates of a maintenance record that leave fields out. *)
NextPartialUpdate ==
    \E p \in Procs :
      \/ create_vehicle(p, {VehicleA})
      \/ create_maintenance_record(p, First,
                                   {MaintenanceFull, MaintenanceBadDue})
      \/ update_maintenance_record(p, Second,
                                   {MaintenanceNoFields, MaintenanceNotesOnly,
                                    MaintenanceSparse})

SpecPartialUpdate == Init /\ [][NextPartialUpdate]_vars

(* Two workers that serve requests at the same time, over the store that   *)
(* create_vehicle and create_maintenance_record have left: the vehicle u1  *)
(* and its maintenance record u2.                                          *)
Workers == {1, 2}

StoredVehicle == Hash(VehicleDict(NewVehicle(VehicleA, uuid4(1), 0, 0)))

StoredMaintenance ==
    ChildHash(NewMaintenance(
        Validate(MaintenanceRecord,
                 CleanData(StrV(uuid4(1)), MaintenanceFull,
                           CreateDefaults).clean).rec,
        uuid4(2), uuid4(1), 0, 0))

StoredFleet ==
    [k \in {VehicleKey(uuid4(1)),
            ChildKey("maintenance", uuid4(1), uuid4(2))} |->
       IF Len(k) = 2 THEN StoredVehicle ELSE StoredMaintenance]

InitFleet ==
    /\ store = StoredFleet
    /\ nextId = 3
    /\ req = [p \in Workers |-> Idle]
    /\ resp = [p \in Workers |-> NoResponse]
    /\ issued = <<>>

(* Updates of the one vehicle and of the one maintenance record, at the    *)
(* same time.                                                              *)
NextLastWrite ==
    \/ update_vehicle(1, First, {VehicleA})
    \/ update_vehicle(2, First, {VehicleB})
    \/ update_maintenance_record(1, Second, {MaintenanceSparse})
    \/ update_maintenance_record(2, {uuid4(2), PairId}, {MaintenanceBadDue})

SpecLastWrite == InitFleet /\ [][NextLastWrite]_vars

(* The creates of child records of the vehicle while it is deleted. *)
NextOrphan ==
    \/ create_maintenance_record(1, First, {MaintenanceFull})
    \/ create_insurance_record(1, First, {InsuranceA})
    \/ create_registration_record(1, First, {RegistrationA})
    \/ delete_vehicle(2, First)

SpecOrphan == InitFleet /\ [][NextOrphan]_vars

(* The updates of the vehicle and of its maintenance record by one worker  *)
(* while the other deletes them.                                           *)
NextDeleteRace ==
    \/ update_vehicle(1, First, {VehicleB})
    \/ update_maintenance_record(1, Second, {MaintenanceSparse})
    \/ delete_vehicle(2, First)
    \/ delete_maintenance_record(2, Second)

SpecDeleteRace == InitFleet /\ [][NextDeleteRace]_vars

(* The reads over a store in which another writer has left a numeric field *)
(* that does not parse: the year of the vehicle, or the mileage, the cost  *)
(* or the next_due_mileage of the maintenance record.                      *)
MalformedFleets ==
    {[StoredFleet EXCEPT ![VehicleKey(uuid4(1))].year = Abc],
     [StoredFleet EXCEPT
        ![ChildKey("maintenance", uuid4(1), uuid4(2))].mileage = Abc],
     [StoredFleet EXCEPT
        ![ChildKey("maintenance", uuid4(1), uuid4(2))].cost = Abc],
     [StoredFleet EXCEPT
        ![ChildKey("maintenance", uuid4(1), uuid4(2))].next_due_mileage = Abc]}

InitMalformed ==
    /\ store \in MalformedFleets
    /\ nextId = 3
    /\ req = [p \in Procs |-> Idle]
    /\ resp = [p \in Procs |-> NoResponse]
    /\ issued = <<>>

NextMalformed ==
    \E p \in Procs :
      \/ get_vehicles(p)
      \/ get_vehicle(p, PathIds)
      \/ get_maintenance_records(p, PathIds)
      \/ get_maintenance_record(p, PathIds)

SpecMalformed == InitMalformed /\ [][NextMalformed]_vars

----------------------------------------------------------------------------
(* What the properties speak of. *)

(* The process p has answered a request of operation op and runs none. *)
Answered(p, op) == At(p, "idle") /\ resp[p].rq.op = op

(* The answer of p came from a store that was reachable and answered every *)
(* command sent to it.                                                     *)
Reachable(p) == resp[p].rq.r /\ ~resp[p].fault

(* The keys of the child records of vehicle v in the store st. *)
ChildrenOf(st, v) == {k \in DOMAIN st : Len(k) = 3 /\ k[2] = v}

ChildCreates ==
    {"create_maintenance_record", "create_insurance_record",
     "create_registration_record"}

----------------------------------------------------------------------------
(* C1: when delete_vehicle succeeds on a vehicle with any number of        *)
(* maintenance, insurance and registration records, neither the vehicle's  *)
(* key nor any key of a child record of that vehicle is left in the store; *)
(* and it succeeds whenever the vehicle exists and the store answers, also *)
(* with no child record at all.                                            *)
C1_CascadeLeavesNoKeys ==
    \A p \in DOMAIN req :
      Answered(p, "delete_vehicle") =>
        LET rq == resp[p].rq
        IN  /\ resp[p].status = 200 =>
                 /\ VehicleKey(rq.id) \notin DOMAIN store
                 /\ ChildrenOf(store, rq.id) = {}
                 /\ \A k \in DOMAIN store : k \in DOMAIN rq.pre
                                            /\ store[k] = rq.pre[k]
            /\ (Reachable(p) /\ VehicleKey(rq.id) \in DOMAIN rq.pre) =>
                 resp[p].status = 200

(* A vehicle with children of two types has been deleted with success. *)
C1_Witness ==
    \E p \in Procs :
      /\ Answered(p, "delete_vehicle")
      /\ resp[p].status = 200
      /\ \E k1, k2 \in ChildrenOf(resp[p].rq.pre, resp[p].rq.id) :
           k1[1] # k2[1]

(* C2: a create of a maintenance, insurance or registration record for a   *)
(* vehicle id whose vehicle key does not exist is answered 404 and leaves  *)
(* the store as it was.                                                    *)
C2_MissingVehicleRejected ==
    \A p \in DOMAIN req :
      \A op \in ChildCreates :
        (/\ Answered(p, op)
         /\ Reachable(p)
         /\ VehicleKey(resp[p].rq.id) \notin DOMAIN resp[p].rq.pre) =>
          /\ resp[p].status = 404
          /\ resp[p].detail = "Vehicle not found"
          /\ store = resp[p].rq.pre

(* A create of an insurance record was refused for the missing vehicle,    *)
(* while another vehicle was stored.                                       *)
C2_Witness ==
    \E p \in Procs :
      /\ Answered(p, "create_insurance_record")
      /\ Reachable(p)
      /\ VehicleKey(resp[p].rq.id) \notin DOMAIN resp[p].rq.pre
      /\ resp[p].rq.pre # <<>>
      /\ resp[p].status = 404

(* C4: while delete_vehicle runs, and when it has stopped at whatever      *)
(* step, a child key of the vehicle is in the store only if the vehicle's  *)
(* key is: the vehicle's key goes last.                                    *)
C4_VehicleKeyLast ==
    \A p \in DOMAIN req :
      LET running == req[p].pc \in {"delete_vehicle:exists",
                                    "delete_vehicle:keys",
                                    "delete_vehicle:delete"}
          id == IF running THEN req[p].rq.id ELSE resp[p].rq.id
      IN  (running \/ Answered(p, "delete_vehicle")) =>
            (ChildrenOf(store, id) # {} => VehicleKey(id) \in DOMAIN store)

(* delete_vehicle has deleted one child key and has another to delete. *)
C4_Witness ==
    \E p \in Procs :
      /\ At(p, "delete_vehicle:delete")
      /\ ChildrenOf(store, req[p].rq.id) # {}
      /\ ChildrenOf(store, req[p].rq.id)
           # ChildrenOf(req[p].rq.pre, req[p].rq.id)

ListOps ==
    {"get_vehicles", "get_maintenance_records", "get_insurance_records",
     "get_registration_records"}

WriteOps ==
    {"create_vehicle", "update_vehicle", "delete_vehicle",
     "create_maintenance_record", "update_maintenance_record",
     "delete_maintenance_record", "create_insurance_record",
     "create_registration_record"}

(* C3: when the store is unreachable, each of the four list operations     *)
(* answers with success and the empty list, each create, update and delete *)
(* answers 503 "Database unavailable", and the store is as it was.         *)
C3_UnreachableStore ==
    \A p \in DOMAIN req :
      (At(p, "idle") /\ resp[p].rq.op # "none" /\ ~resp[p].rq.r) =>
        /\ resp[p].rq.op \in ListOps =>
             resp[p].status = 200 /\ resp[p].out = <<>>
        /\ resp[p].rq.op \in WriteOps =>
             /\ resp[p].status = 503
             /\ resp[p].detail = "Database unavailable"
        /\ store = resp[p].rq.pre

(* The list of the maintenance records of a vehicle that has one was asked *)
(* for while the store was unreachable.                                    *)
C3_Witness ==
    \E p \in DOMAIN req :
      /\ Answered(p, "get_maintenance_records")
      /\ ~resp[p].rq.r
      /\ \E k \in ChildrenOf(store, resp[p].rq.id) : k[1] = "maintenance"
      /\ resp[p].out = <<>>

(* C5: every child record stored under a key <type>:<v>:<id> has the       *)
(* vehicle_id field v and the id field id, after whatever creates of child *)
(* records and updates of maintenance records, whatever vehicle_id and id  *)
(* their bodies carry.                                                     *)
C5_StoredIdentity ==
    \A k \in DOMAIN store :
      Len(k) = 3 => store[k].vehicle_id = k[2] /\ store[k].id = k[3]

(* C6: a vehicle read by the id its create returned, with no write to it   *)
(* in between and the store answering, is returned with the make, model,   *)
(* year, vin, license_plate, color and mileage the create was given and    *)
(* the id, created_at and updated_at the create returned.                  *)
C6_VehicleRoundTrip ==
    \A p \in DOMAIN req :
      (/\ Answered(p, "get_vehicle")
       /\ Reachable(p)
       /\ resp[p].rq.id \in DOMAIN issued) =>
        LET given == issued[resp[p].rq.id].input
            returned == issued[resp[p].rq.id].output
        IN  /\ resp[p].status = 200
            /\ Len(resp[p].out) = 1
            /\ \A f \in {"make", "model", "year", "vin", "license_plate",
                         "color", "mileage"} :
                 resp[p].out[1][f] = given[f]
            /\ \A f \in {"id", "created_at", "updated_at"} :
                 resp[p].out[1][f] = returned[f]

(* The vehicle created from the body with a negative year, an empty        *)
(* license plate, the mileage 0 and identity fields of its own was read.   *)
C6_Witness ==
    \E p \in DOMAIN req :
      /\ Answered(p, "get_vehicle")
      /\ Reachable(p)
      /\ resp[p].rq.id \in DOMAIN issued
      /\ issued[resp[p].rq.id].input = VehicleB
      /\ resp[p].status = 200
      /\ resp[p].out[1].year = IntV(-1)
      /\ resp[p].out[1].id = StrV(resp[p].rq.id)

(* C7: an update of a vehicle or of a maintenance record that succeeds     *)
(* leaves the keys of the store, and the id, created_at and (of a child    *)
(* record) vehicle_id of every record, as they were before it, whatever    *)
(* the body carries.                                                       *)
C7_UpdateKeepsIdentity ==
    \A p \in DOMAIN req :
      (/\ \/ Answered(p, "update_vehicle")
          \/ Answered(p, "update_maintenance_record")
       /\ resp[p].status = 200) =>
        LET pre == resp[p].rq.pre
        IN  /\ DOMAIN store = DOMAIN pre
            /\ \A k \in DOMAIN pre :
                 /\ store[k].id = pre[k].id
                 /\ store[k].created_at = pre[k].created_at
                 /\ Len(k) = 3 => store[k].vehicle_id = pre[k].vehicle_id

(* C8: the list of the maintenance records of a vehicle, given by a store  *)
(* that answers, holds every record of the vehicle that a create returned  *)
(* with success and that is in the store, with the next_due_mileage absent *)
(* where the create was given none.                                        *)
C8_EveryRecordListed ==
    \A p \in DOMAIN req :
      (Answered(p, "get_maintenance_records") /\ Reachable(p)) =>
        \A k \in DOMAIN resp[p].rq.pre :
          (/\ Len(k) = 3
           /\ k[1] = "maintenance"
           /\ k[2] = resp[p].rq.id
           /\ k[3] \in DOMAIN issued) =>
            \E i \in 1..Len(resp[p].out) :
              /\ resp[p].out[i].id = StrV(k[3])
              /\ "next_due_mileage" \notin DOMAIN issued[k[3]].input =>
                   resp[p].out[i].next_due_mileage = None

(* C9: in the list a list operation of the child records of a vehicle      *)
(* returns, no record's sort field (date, start_date, issue_date) is less, *)
(* as a string, than the sort field of the record after it.                *)
SortField ==
    [get_maintenance_records |-> "date",
     get_insurance_records |-> "start_date",
     get_registration_records |-> "issue_date"]

C9_ListsDescending ==
    \A p \in DOMAIN req :
      \A op \in DOMAIN SortField :
        (Answered(p, op) /\ resp[p].status = 200) =>
          \A i \in 1..(Len(resp[p].out) - 1) :
            ~StrLess(resp[p].out[i][SortField[op]].s,
                     resp[p].out[i + 1][SortField[op]].s)

(* Two maintenance records were listed in the other order than the store   *)
(* gave their keys in.                                                     *)
C9_Witness ==
    \E p \in DOMAIN req :
      /\ Answered(p, "get_maintenance_records")
      /\ Len(resp[p].out) = 2
      /\ Len(resp[p].rq.scan) = 2
      /\ resp[p].out[1].id = StrV(resp[p].rq.scan[2][3])
      /\ StrLess(resp[p].out[2].date.s, resp[p].out[1].date.s)

(* C10: a maintenance create for a vehicle that exists, with the store     *)
(* answering: when int() refuses the mileage or float() the cost, it       *)
(* answers 422 and the store is as it was; when the mileage and the cost   *)
(* parse, the other fields are valid and int() refuses the                 *)
(* next_due_mileage, it answers with success and the record, stored and    *)
(* returned, has no next_due_mileage.                                      *)
C10_NumericValidation ==
    \A p \in DOMAIN req :
      (/\ Answered(p, "create_maintenance_record")
       /\ Reachable(p)
       /\ VehicleKey(resp[p].rq.id) \in DOMAIN resp[p].rq.pre) =>
        LET rq == resp[p].rq
            mileage == int(Get(rq.body, "mileage", IntV(0)))
            cost == float(Get(rq.body, "cost", FloatV(0)))
            due == Get(rq.body, "next_due_mileage", None)
            others == \A f \in {"type", "description", "date",
                                "service_provider"} :
                        Get(rq.body, f, StrV(<<>>)).k = "str"
        IN  /\ (~mileage.ok \/ ~cost.ok) =>
                 /\ resp[p].status = 422
                 /\ store = rq.pre
            /\ (/\ mileage.ok /\ cost.ok /\ others
                /\ Truthy(due) /\ ~int(due).ok) =>
                 /\ resp[p].status = 200
                 /\ resp[p].out[1].next_due_mileage = None
                 /\ DOMAIN store \ DOMAIN rq.pre =
                      {ChildKey("maintenance", rq.id, resp[p].out[1].id.s)}
                 /\ \A k \in DOMAIN store \ DOMAIN rq.pre :
                      store[k].next_due_mileage = <<>>

(* A maintenance create with a next_due_mileage that int() refuses has     *)
(* stored and returned a record with none.                                 *)
C10_Witness ==
    \E p \in DOMAIN req :
      /\ Answered(p, "create_maintenance_record")
      /\ Reachable(p)
      /\ resp[p].rq.body = MaintenanceBadDue
      /\ resp[p].status = 200
      /\ resp[p].out[1].next_due_mileage = None
      /\ DOMAIN store # DOMAIN resp[p].rq.pre

(* The maintenance keys of the store st that a request for the id m finds. *)
KeysOf(st, m) ==
    {k \in DOMAIN st :
       k[1] = "maintenance" /\ EndsWith(KeyStr(k), <<":">> \o m)}

OptionalStrings == {"notes", "next_due_date"}

(* C11: a maintenance create or update that succeeds with the notes (or    *)
(* the next_due_date) left out, null or the empty string stores the empty  *)
(* string for the field and returns it absent, whichever of the three it   *)
(* was given; and a read, by id or by list, gives for the field what the   *)
(* stored hash holds, so that the three cannot be told apart.              *)
C11_EmptyOptionalAlike ==
    \A p \in DOMAIN req :
      /\ (/\ \/ Answered(p, "create_maintenance_record")
             \/ Answered(p, "update_maintenance_record")
          /\ resp[p].status = 200) =>
           \A f \in OptionalStrings :
             ~Truthy(Get(resp[p].rq.body, f, None)) =>
               /\ resp[p].out[1][f] = None
               /\ KeysOf(store, resp[p].out[1].id.s) # {}
               /\ \A k \in KeysOf(store, resp[p].out[1].id.s) :
                    store[k][f] = <<>>
      /\ (Answered(p, "get_maintenance_record") /\ resp[p].status = 200) =>
           \E k \in KeysOf(store, resp[p].rq.id) :
             \A f \in OptionalStrings :
               resp[p].out[1][f] = StrV(store[k][f])
      /\ (Answered(p, "get_maintenance_records") /\ resp[p].status = 200) =>
           \A i \in 1..Len(resp[p].out) :
             \E k \in KeysOf(store, resp[p].out[i].id.s) :
               \A f \in OptionalStrings :
                 resp[p].out[i][f] = StrV(store[k][f])

(* A record created with notes and a next_due_date, then updated with both *)
(* as empty strings, was read with both empty.                             *)
C11_Witness ==
    \E p \in DOMAIN req :
      /\ Answered(p, "get_maintenance_record")
      /\ resp[p].status = 200
      /\ resp[p].rq.id \in DOMAIN issued
      /\ issued[resp[p].rq.id].input = MaintenanceFull
      /\ \A f \in OptionalStrings : resp[p].out[1][f] = StrV(<<>>)

VehicleByIdOps == {"get_vehicle", "update_vehicle", "delete_vehicle"}

MaintenanceByIdOps ==
    {"get_maintenance_record", "update_maintenance_record",
     "delete_maintenance_record"}

(* C12: with the store answering, the read by id, the update and the       *)
(* delete of a vehicle whose key is not in the store, and of a maintenance *)
(* record no key of which is in the store, answer 404 and leave the store  *)
(* as it was; so does the delete of what was deleted before.               *)
C12_MissingIsNotFound ==
    \A p \in DOMAIN req :
      (At(p, "idle") /\ resp[p].rq.op # "none" /\ Reachable(p)) =>
        /\ (/\ resp[p].rq.op \in VehicleByIdOps
            /\ VehicleKey(resp[p].rq.id) \notin DOMAIN resp[p].rq.pre) =>
             /\ resp[p].status = 404
             /\ resp[p].detail = "Vehicle not found"
             /\ store = resp[p].rq.pre
        /\ (/\ resp[p].rq.op \in MaintenanceByIdOps
            /\ KeysOf(resp[p].rq.pre, resp[p].rq.id) = {}) =>
             /\ resp[p].status = 404
             /\ resp[p].detail = "Maintenance record not found"
             /\ store = resp[p].rq.pre

(* The first vehicle, created and deleted before, was to be deleted again. *)
C12_Witness ==
    \E p \in DOMAIN req :
      /\ Answered(p, "delete_vehicle")
      /\ Reachable(p)
      /\ resp[p].rq.id = uuid4(1)
      /\ nextId > 1
      /\ VehicleKey(uuid4(1)) \notin DOMAIN resp[p].rq.pre
      /\ resp[p].status = 404

ByIdReads == {"get_vehicle", "get_maintenance_record"}

(* C13, as the code has it: when the store is unreachable the reads by id  *)
(* (of a vehicle, of a maintenance record) answer 503 "Database            *)
(* unavailable", and only the list operations answer with an empty list.   *)
C13_ByIdReadsRefuse ==
    \A p \in DOMAIN req :
      (At(p, "idle") /\ resp[p].rq.op # "none" /\ ~resp[p].rq.r) =>
        /\ resp[p].rq.op \in ByIdReads =>
             /\ resp[p].status = 503
             /\ resp[p].detail = "Database unavailable"
             /\ resp[p].out = <<>>
        /\ resp[p].rq.op \in ListOps => resp[p].status = 200

(* C13, as the specification states it: when the store is unreachable      *)
(* every read, the reads by id among them, answers with an empty result    *)
(* and no error.                                                           *)
C13_ReadsReturnEmpty ==
    \A p \in DOMAIN req :
      (/\ At(p, "idle")
       /\ resp[p].rq.op \in ByIdReads \cup ListOps
       /\ ~resp[p].rq.r) =>
        resp[p].status = 200 /\ resp[p].out = <<>>

(* A vehicle that is stored was asked for by id while the store was        *)
(* unreachable, and the answer was 503.                                    *)
C13_Witness ==
    \E p \in DOMAIN req :
      /\ Answered(p, "get_vehicle")
      /\ ~resp[p].rq.r
      /\ VehicleKey(resp[p].rq.id) \in DOMAIN store
      /\ resp[p].status = 503

(* The store st with the hash h written whole under the key k. *)
Written(st, k, h) ==
    [k2 \in DOMAIN st \cup {k} |-> IF k2 = k THEN h ELSE st[k2]]

(* C14: the write of an update that succeeds, whatever other update of the *)
(* record runs at the same time and whatever it read or wrote before,      *)
(* leaves under the record's key exactly the record this update returns,   *)
(* in every field, with the id and the created_at the record had, and      *)
(* leaves every other key alone: the stored record is the record of the    *)
(* update that wrote last, never a mixture.                                *)
C14_LastWriteWins ==
    [][\A p \in DOMAIN req :
         /\ (At(p, "update_vehicle:hset") /\ resp'[p].status = 200) =>
              LET k == VehicleKey(req[p].rq.id)
              IN  /\ store' = Written(store, k,
                                      Hash(VehicleDict(resp'[p].out[1])))
                  /\ store'[k].id = store[k].id
                  /\ store'[k].created_at = store[k].created_at
         /\ (At(p, "update_maintenance_record:hset")
             /\ resp'[p].status = 200) =>
              LET k == req[p].maintenance_key
              IN  /\ store' = Written(store, k, ChildHash(resp'[p].out[1]))
                  /\ store'[k].id = store[k].id
                  /\ store'[k].created_at = store[k].created_at]_vars

(* A step writes one new child key of the vehicle v and nothing else. *)
WritesChildOf(v) ==
    \E k \in DOMAIN store' \ DOMAIN store :
      /\ Len(k) = 3
      /\ k[2] = v
      /\ store' = Written(store, k, store'[k])

(* C15: a create of a child record that has passed its check of the        *)
(* vehicle writes the child key and goes on to success when the store      *)
(* answers, whether the vehicle is still stored or not; no later step of   *)
(* the create touches the store, and delete_vehicle removes no key but     *)
(* those it enumerated: a child written after the vehicle went stays.      *)
C15_CheckThenWrite ==
    [][\A p \in DOMAIN req :
         /\ (At(p, "create:hset") /\ req'[p] # req[p]) =>
              \/ resp'[p].status = 500 /\ resp'[p].fault /\ store' = store
              \/ resp'[p].status = 200 /\ WritesChildOf(req[p].rq.id)
         /\ (At(p, "create_maintenance_record:hset") /\ req'[p] # req[p]) =>
              \/ resp'[p].status = 500 /\ resp'[p].fault /\ store' = store
              \/ /\ req'[p].pc = "create_maintenance_record:hgetall"
                 /\ WritesChildOf(req[p].rq.id)
         /\ (At(p, "create_maintenance_record:hgetall")
             /\ req'[p] # req[p]) =>
              /\ store' = store
              /\ resp'[p].status = 200 \/ resp'[p].fault
         /\ (At(p, "delete_vehicle:delete") /\ req'[p] # req[p]) =>
              /\ DOMAIN store \ DOMAIN store' \subseteq {Head(req[p].keys)}
              /\ req'[p].pc = "delete_vehicle:delete" =>
                   req'[p].keys = Tail(req[p].keys)]_vars

(* The create of an insurance record and the delete of its vehicle have    *)
(* both answered with success, and the record is stored while the vehicle  *)
(* is not.                                                                 *)
C15_Witness ==
    \E p, q \in DOMAIN req :
      /\ Answered(p, "create_insurance_record")
      /\ resp[p].status = 200
      /\ Answered(q, "delete_vehicle")
      /\ resp[q].status = 200
      /\ resp[q].rq.id = resp[p].rq.id
      /\ VehicleKey(resp[p].rq.id) \notin DOMAIN store
      /\ ChildKey("insurance", resp[p].rq.id, resp[p].out[1].id.s)
           \in DOMAIN store

(* The hash h holds, in a field of ints or floats, a string that is not    *)
(* empty and that int() or float() refuses.                                *)
Unparseable(h, ints, floats) ==
    \E f \in DOMAIN h :
      /\ h[f] # <<>>
      /\ \/ f \in ints /\ ~int(StrV(h[f])).ok
         \/ f \in floats /\ ~float(StrV(h[f])).ok

(* C16: with the store answering, a read that meets a stored numeric field *)
(* that does not parse answers 500, be it the read of a vehicle or of a    *)
(* maintenance record by id or a list of vehicles or of maintenance        *)
(* records.                                                                *)
C16_MalformedIsInternal ==
    \A p \in DOMAIN req :
      (At(p, "idle") /\ resp[p].rq.op # "none" /\ Reachable(p)) =>
        LET rq == resp[p].rq
            bad(k) == IF Len(k) = 2
                      THEN Unparseable(rq.pre[k], {"year", "mileage"}, {})
                      ELSE Unparseable(rq.pre[k], MaintenanceInts,
                                       MaintenanceFloats)
        IN  /\ (/\ rq.op = "get_vehicle"
                /\ VehicleKey(rq.id) \in DOMAIN rq.pre
                /\ bad(VehicleKey(rq.id))) => resp[p].status = 500
            /\ (/\ rq.op = "get_vehicles"
                /\ \E k \in DOMAIN rq.pre : Len(k) = 2 /\ bad(k)) =>
                 resp[p].status = 500
            /\ (/\ rq.op = "get_maintenance_record"
                /\ \E k \in KeysOf(rq.pre, rq.id) : bad(k)) =>
                 resp[p].status = 500
            /\ (/\ rq.op = "get_maintenance_records"
                /\ \E k \in ChildrenOf(rq.pre, rq.id) :
                     k[1] = "maintenance" /\ bad(k)) =>
                 resp[p].status = 500

(* The store st without the first n keys of the sequence ks. *)
Without(st, ks, n) ==
    [k \in DOMAIN st \ {ks[i] : i \in 1..n} |-> st[k]]

(* C17: when a command of delete_vehicle fails, the request answers 500    *)
(* and the store is the store it found less the child keys deleted until   *)
(* then, in the order of the deletion: those stay deleted, the other child *)
(* keys and the vehicle's key stay, nothing is put back or tried again.    *)
C17_PartialCascadeStays ==
    \A p \in DOMAIN req :
      (Answered(p, "delete_vehicle") /\ resp[p].rq.r /\ resp[p].fault) =>
        /\ resp[p].status = 500
        /\ \E n \in 0..Len(resp[p].rq.scan) :
             store = Without(resp[p].rq.pre, resp[p].rq.scan, n)
        /\ VehicleKey(resp[p].rq.id) \in DOMAIN resp[p].rq.pre =>
             VehicleKey(resp[p].rq.id) \in DOMAIN store

(* delete_vehicle has failed after it deleted one of two child keys. *)
C17_Witness ==
    \E p \in DOMAIN req :
      /\ Answered(p, "delete_vehicle")
      /\ resp[p].fault
      /\ resp[p].status = 500
      /\ Len(resp[p].rq.scan) = 2
      /\ store = Without(resp[p].rq.pre, resp[p].rq.scan, 1)
      /\ resp[p].rq.scan[2] \in DOMAIN store
      /\ VehicleKey(resp[p].rq.id) \in DOMAIN store

(* C18: a maintenance create answers with the first of: 503 when the store *)
(* is unreachable; 404 when the vehicle is missing; 422 "Invalid mileage   *)
(* value" when int() refuses the mileage; 422 "Invalid cost value" when    *)
(* float() refuses the cost; and in each of these cases the store is as it *)
(* was.                                                                    *)
C18_FirstFailureWins ==
    \A p \in DOMAIN req :
      (Answered(p, "create_maintenance_record")
       /\ (resp[p].rq.r => ~resp[p].fault)) =>
        LET rq == resp[p].rq
            missing == VehicleKey(rq.id) \notin DOMAIN rq.pre
            mileage == int(Get(rq.body, "mileage", IntV(0)))
            cost == float(Get(rq.body, "cost", FloatV(0)))
            refused(status, detail) ==
                /\ resp[p].status = status
                /\ resp[p].detail = detail
                /\ store = rq.pre
        IN  IF ~rq.r THEN refused(503, "Database unavailable")
            ELSE IF missing THEN refused(404, "Vehicle not found")
            ELSE IF ~mileage.ok THEN refused(422, "Invalid mileage value")
            ELSE IF ~cost.ok THEN refused(422, "Invalid cost value")
            ELSE resp[p].status \in {200, 422}

(* A create with a mileage and a cost that do not parse, for a vehicle     *)
(* that is stored, was refused for its mileage.                            *)
C18_Witness ==
    \E p \in DOMAIN req :
      /\ Answered(p, "create_maintenance_record")
      /\ Reachable(p)
      /\ resp[p].rq.body = MaintenanceBadMileage
      /\ VehicleKey(resp[p].rq.id) \in DOMAIN resp[p].rq.pre
      /\ resp[p].detail = "Invalid mileage value"

RequiredFields ==
    {"type", "description", "date", "service_provider", "mileage", "cost"}

OptionalFields == {"notes", "next_due_date", "next_due_mileage"}

(* C19: after a maintenance update that succeeds, each of type,            *)
(* description, date, service_provider, mileage and cost that the request  *)
(* left out is stored as it was before, and each of notes, next_due_date   *)
(* and next_due_mileage that the request left out or gave as empty or      *)
(* falsy is stored as the empty string, whatever it was before.            *)
C19_OmittedFields ==
    \A p \in DOMAIN req :
      (Answered(p, "update_maintenance_record") /\ resp[p].status = 200) =>
        /\ KeysOf(resp[p].rq.pre, resp[p].rq.id) # {}
        /\ \A k \in KeysOf(resp[p].rq.pre, resp[p].rq.id) :
             /\ \A f \in RequiredFields \ DOMAIN resp[p].rq.body :
                  store[k][f] = resp[p].rq.pre[k][f]
             /\ \A f \in OptionalFields :
                  ~Truthy(Get(resp[p].rq.body, f, None)) =>
                    store[k][f] = <<>>

(* A record that had notes, a next_due_date and a next_due_mileage was     *)
(* updated with a body of no field: it kept its type, mileage and cost and *)
(* lost the three.                                                         *)
C19_Witness ==
    \E p \in DOMAIN req :
      /\ Answered(p, "update_maintenance_record")
      /\ resp[p].status = 200
      /\ resp[p].rq.body = MaintenanceNoFields
      /\ \E k \in KeysOf(resp[p].rq.pre, resp[p].rq.id) :
           /\ \A f \in OptionalFields : resp[p].rq.pre[k][f] # <<>>
           /\ \A f \in OptionalFields : store[k][f] = <<>>
           /\ store[k].type = <<"o">>
           /\ store[k].mileage = <<"1", "0", "0">>
           /\ store[k].cost = resp[p].rq.pre[k].cost

(* C20: a delete of a maintenance record that succeeds removes exactly one  *)
(* key, a maintenance key that ends with ":" and the id of the request,    *)
(* and leaves every other key with the hash it had: the vehicle, its other *)
(* maintenance, insurance and registration records, and any other key.     *)
C20_DeletesOneKey ==
    \A p \in DOMAIN req :
      (Answered(p, "delete_maintenance_record") /\ resp[p].status = 200) =>
        \E k \in KeysOf(resp[p].rq.pre, resp[p].rq.id) :
          /\ DOMAIN store = DOMAIN resp[p].rq.pre \ {k}
          /\ \A other \in DOMAIN store : store[other] = resp[p].rq.pre[other]

(* The record of a vehicle was deleted by its id; the vehicle and another  *)
(* child record of it are in the store as they were.                       *)
C20_Witness ==
    \E p \in DOMAIN req :
      /\ Answered(p, "delete_maintenance_record")
      /\ resp[p].status = 200
      /\ \E k \in DOMAIN resp[p].rq.pre \ DOMAIN store :
           /\ k[3] = resp[p].rq.id
           /\ VehicleKey(k[2]) \in DOMAIN store
           /\ ChildrenOf(store, k[2]) # {}
           /\ ChildrenOf(store, k[2]) = ChildrenOf(resp[p].rq.pre, k[2]) \ {k}

(* The child keys of the store st whose vehicle key is not in st. *)
Orphans(st) ==
    {k \in DOMAIN st : Len(k) = 3 /\ VehicleKey(k[2]) \notin DOMAIN st}

(* C21: with one request served at a time, each to its answer (success or  *)
(* error, the store answering or failing at any command), every child key  *)
(* <type>:<v>:<id> in the store has the key vehicle:<v> in the store, in   *)
(* every state, those between two commands of one request included.        *)
C21_NoOrphanWhenSerial == Orphans(store) = {}

(* The cascade of a vehicle with two child records is half done: one child *)
(* key is removed, the other and the vehicle key are still stored.         *)
C21_Witness ==
    \E p \in DOMAIN req :
      /\ At(p, "delete_vehicle:delete")
      /\ VehicleKey(req[p].rq.id) \in DOMAIN store
      /\ ChildrenOf(store, req[p].rq.id) # {}
      /\ ChildrenOf(req[p].rq.pre, req[p].rq.id)
           \ ChildrenOf(store, req[p].rq.id) # {}

(* C22, as claimed: while the success of a delete of a vehicle (of a        *)
(* maintenance record) is the last answer of its worker, the vehicle's key *)
(* (any key of the record) is not in the store, whatever update of the     *)
(* same record was under way when the delete finished.                     *)
C22_DeleteIsFinal ==
    \A q \in DOMAIN req :
      /\ (Answered(q, "delete_vehicle") /\ resp[q].status = 200) =>
           VehicleKey(resp[q].rq.id) \notin DOMAIN store
      /\ (Answered(q, "delete_maintenance_record")
          /\ resp[q].status = 200) =>
           KeysOf(store, resp[q].rq.id) = {}

(* The worker p is at the r.hset of an update of the key k. *)
UpdateWrites(p, k) ==
    \/ At(p, "update_vehicle:hset") /\ k = VehicleKey(req[p].rq.id)
    \/ At(p, "update_maintenance_record:hset") /\ k = req[p].maintenance_key

(* C22, as the code has it: a delete is final only against the requests    *)
(* that arrive after it removed the key. An update that has read the       *)
(* record goes on to its r.hset whether the key is still stored or not:    *)
(* when the store answers, the step puts the update's record under the key *)
(* (creating the key when a delete has removed it meanwhile) and the       *)
(* update answers 200. No other step brings a key back, and the update     *)
(* that does arrived while the key was stored.                             *)
C22_StaleUpdateRestores ==
    [][/\ \A p \in DOMAIN req :
            /\ (At(p, "update_vehicle:hset") /\ req'[p] # req[p]) =>
                 \/ resp'[p].status = 500 /\ store' = store
                 \/ /\ resp'[p].status = 200
                    /\ store' = Written(store, VehicleKey(req[p].rq.id),
                                        Hash(VehicleDict(resp'[p].out[1])))
            /\ (At(p, "update_maintenance_record:hset")
                /\ req'[p] # req[p]) =>
                 \/ resp'[p].status = 500 /\ store' = store
                 \/ /\ resp'[p].status = 200
                    /\ store' = Written(store, req[p].maintenance_key,
                                        ChildHash(resp'[p].out[1]))
       /\ \A k \in DOMAIN store' \ DOMAIN store :
            \E p \in DOMAIN req :
              /\ UpdateWrites(p, k)
              /\ req'[p] # req[p]
              /\ k \in DOMAIN req[p].rq.pre]_vars

(* The delete of the vehicle and an update of it have both answered with   *)
(* success, and the vehicle's key is stored, with the update's record and  *)
(* without the child record the delete removed.                            *)
C22_Witness ==
    \E p, q \in DOMAIN req :
      /\ Answered(q, "delete_vehicle")
      /\ resp[q].status = 200
      /\ Answered(p, "update_vehicle")
      /\ resp[p].status = 200
      /\ resp[p].rq.id = resp[q].rq.id
      /\ VehicleKey(resp[q].rq.id) \in DOMAIN store
      /\ store[VehicleKey(resp[q].rq.id)]
           = Hash(VehicleDict(resp[p].out[1]))
      /\ ChildrenOf(resp[q].rq.pre, resp[q].rq.id) # {}
      /\ ChildrenOf(store, resp[q].rq.id) = {}

====
